---- MODULE Spec2Model ----
(***************************************************************************)
(* A model of the Syllabus Scanner API (src/backend/main.py): the          *)
(* process-syllabus and delete-class handlers, the lazily created          *)
(* persistence client, the parsing of the model reply and the              *)
(* normalisation of event dates.                                           *)
(*                                                                         *)
(* Text is a sequence of one-character strings.  A model reply is a        *)
(* sequence of tokens (fence, word, whitespace, junk, JSON document), each *)
(* with its length in characters.  A JSON value is a tagged record.        *)
(***************************************************************************)
EXTENDS Integers, Sequences, FiniteSets, TLC

\* Python's None.
None == <<"None">>

Min(a, b) == IF a < b THEN a ELSE b

(***************************************************************************)
(* Text                                                                    *)
(***************************************************************************)
Whitespace == {" ", "\n"}

RECURSIVE LStrip(_)
LStrip(s) ==
    IF s # <<>> /\ Head(s) \in Whitespace THEN LStrip(Tail(s)) ELSE s

RECURSIVE RStrip(_)
RStrip(s) ==
    IF s # <<>> /\ s[Len(s)] \in Whitespace
    THEN RStrip(SubSeq(s, 1, Len(s) - 1))
    ELSE s

\* str.strip()
Strip(s) == RStrip(LStrip(s))

\* (x or "").strip() or None, for x a str or None
StripOrNone(x) ==
    LET s == IF x = None THEN <<>> ELSE Strip(x)
    IN  IF s = <<>> THEN None ELSE s

Digits == <<"0", "1", "2", "3", "4", "5", "6", "7", "8", "9">>

IsDigit(c) == \E k \in 1..10 : Digits[k] = c

DigitVal(c) == (CHOOSE k \in 1..10 : Digits[k] = c) - 1

\* Two decimal digits, zero padded (strftime's %m and %d).
TwoDigits(n) == <<Digits[((n \div 10) % 10) + 1], Digits[(n % 10) + 1]>>

FourDigits(n) ==
    <<Digits[((n \div 1000) % 10) + 1], Digits[((n \div 100) % 10) + 1],
      Digits[((n \div 10) % 10) + 1], Digits[(n % 10) + 1]>>

\* The decimal digits of n without padding.
RECURSIVE Decimal(_)
Decimal(n) ==
    IF n < 10 THEN <<Digits[n + 1]>>
    ELSE Append(Decimal(n \div 10), Digits[(n % 10) + 1])

Lower(c) ==
    CASE c = "A" -> "a"
      [] c = "B" -> "b"
      [] c = "C" -> "c"
      [] c = "D" -> "d"
      [] c = "E" -> "e"
      [] c = "F" -> "f"
      [] c = "G" -> "g"
      [] c = "H" -> "h"
      [] c = "I" -> "i"
      [] c = "J" -> "j"
      [] c = "K" -> "k"
      [] c = "L" -> "l"
      [] c = "M" -> "m"
      [] c = "N" -> "n"
      [] c = "O" -> "o"
      [] c = "P" -> "p"
      [] c = "Q" -> "q"
      [] c = "R" -> "r"
      [] c = "S" -> "s"
      [] c = "T" -> "t"
      [] c = "U" -> "u"
      [] c = "V" -> "v"
      [] c = "W" -> "w"
      [] c = "X" -> "x"
      [] c = "Y" -> "y"
      [] c = "Z" -> "z"
      [] OTHER -> c

LowerText(s) == [k \in 1..Len(s) |-> Lower(s[k])]

\* s has prefix p at position i (1-based).
HasAt(s, i, p) ==
    /\ i + Len(p) - 1 <= Len(s)
    /\ \A k \in 1..Len(p) : s[i + k - 1] = p[k]

(***************************************************************************)
(* JSON values, as json.loads returns them                                 *)
(***************************************************************************)
JNull == [t |-> "null"]
JStr(s) == [t |-> "str", s |-> s]
JNum(n) == [t |-> "num", n |-> n]
JList(items) == [t |-> "list", items |-> items]
JObj(m) == [t |-> "obj", m |-> m]

\* dict.get(key): the value, or None (JSON null) when the key is missing.
Get(obj, key) == IF key \in DOMAIN obj.m THEN obj.m[key] ELSE JNull

\* Python's truth value of a parsed JSON value.
Truthy(v) ==
    CASE v.t = "null" -> FALSE
      [] v.t = "str" -> v.s # <<>>
      [] v.t = "num" -> v.n # 0
      [] v.t = "list" -> v.items # <<>>
      [] v.t = "obj" -> DOMAIN v.m # {}

\* str(v) for a truthy value.  The text of a container starts with its
\* bracket; only that it is not a date matters here.
PyStr(v) ==
    CASE v.t = "str" -> v.s
      [] v.t = "num" -> Decimal(v.n)
      [] v.t = "list" -> <<"[", "]">>
      [] v.t = "obj" -> <<"{", "}">>
      [] OTHER -> <<"N", "o", "n", "e">>

(***************************************************************************)
(* Dates: parse_event_date                                                 *)
(***************************************************************************)
MonthNames ==
    << <<"j","a","n","u","a","r","y">>,
       <<"f","e","b","r","u","a","r","y">>,
       <<"m","a","r","c","h">>,
       <<"a","p","r","i","l">>,
       <<"m","a","y">>,
       <<"j","u","n","e">>,
       <<"j","u","l","y">>,
       <<"a","u","g","u","s","t">>,
       <<"s","e","p","t","e","m","b","e","r">>,
       <<"o","c","t","o","b","e","r">>,
       <<"n","o","v","e","m","b","e","r">>,
       <<"d","e","c","e","m","b","e","r">> >>

MonthAbbrs ==
    << <<"j","a","n">>,
       <<"f","e","b">>,
       <<"m","a","r">>,
       <<"a","p","r">>,
       <<"m","a","y">>,
       <<"j","u","n">>,
       <<"j","u","l">>,
       <<"a","u","g">>,
       <<"s","e","p">>,
       <<"o","c","t">>,
       <<"n","o","v">>,
       <<"d","e","c">> >>

\* datetime.now().strftime("%Y-%m-%d"): the day the request is handled.
Today == <<"2", "0", "2", "6", "-", "1", "1", "-", "0", "3">>

\* re.match(r"^\d{4}-\d{2}-\d{2}$", s)
MatchesCanonicalRegex(s) ==
    /\ Len(s) = 10
    /\ \A k \in {1, 2, 3, 4, 6, 7, 9, 10} : IsDigit(s[k])
    /\ s[5] = "-"
    /\ s[8] = "-"

Lit(c) == [k |-> "lit", c |-> c]
Dir(d) == [k |-> d, c |-> ""]

\* The formats parse_event_date tries, in order.  A blank in a format is
\* the directive "ws": strptime compiles it to \s+.
DateFormats ==
    << <<Dir("Y"), Lit("-"), Dir("m"), Lit("-"), Dir("d")>>,
       <<Dir("m"), Lit("/"), Dir("d"), Lit("/"), Dir("Y")>>,
       <<Dir("B"), Dir("ws"), Dir("d"), Lit(","), Dir("ws"), Dir("Y")>>,
       <<Dir("b"), Dir("ws"), Dir("d"), Lit(","), Dir("ws"), Dir("Y")>>,
       <<Dir("d"), Dir("ws"), Dir("B"), Dir("ws"), Dir("Y")>> >>

Cand(n, v) == [n |-> n, v |-> v]

\* The length of the run of whitespace of s that starts at i.
RECURSIVE WsRun(_, _)
WsRun(s, i) ==
    IF i <= Len(s) /\ s[i] \in Whitespace THEN 1 + WsRun(s, i + 1) ELSE 0

\* The month names of table that s carries at i, ignoring case.
NameCands(s, i, table) ==
    LET hits == {m \in 1..12 : HasAt(LowerText(s), i, table[m])}
    IN  IF hits = {} THEN <<>>
        ELSE LET m == CHOOSE x \in hits :
                        \A y \in hits : Len(table[y]) <= Len(table[x])
             IN  <<Cand(Len(table[m]), m)>>

\* The ways directive d can match s at i, in the order strptime's regular
\* expression tries them: [n: characters taken, v: the value read].
DirCands(s, i, d) ==
    LET c1 == IF i <= Len(s) THEN s[i] ELSE ""
        c2 == IF i + 1 <= Len(s) THEN s[i + 1] ELSE ""
        v1 == IF IsDigit(c1) THEN DigitVal(c1) ELSE 0
        v2 == IF IsDigit(c2) THEN DigitVal(c2) ELSE 0
        both == IsDigit(c1) /\ IsDigit(c2)
    IN  CASE d.k = "lit" -> IF c1 = d.c THEN <<Cand(1, 0)>> ELSE <<>>
          [] d.k = "ws" ->
                LET r == WsRun(s, i)
                IN  [k \in 1..r |-> Cand(r - k + 1, 0)]
          [] d.k = "Y" ->
                IF /\ i + 3 <= Len(s)
                   /\ \A k \in 0..3 : IsDigit(s[i + k])
                THEN <<Cand(4, 1000 * DigitVal(s[i]) + 100 * DigitVal(s[i + 1])
                               + 10 * DigitVal(s[i + 2]) + DigitVal(s[i + 3]))>>
                ELSE <<>>
          [] d.k = "m" ->
                \* 1[0-2]|0[1-9]|[1-9]
                (IF both /\ v1 = 1 /\ v2 <= 2 THEN <<Cand(2, 10 + v2)>> ELSE <<>>)
                \o (IF both /\ v1 = 0 /\ v2 >= 1 THEN <<Cand(2, v2)>> ELSE <<>>)
                \o (IF IsDigit(c1) /\ v1 >= 1 THEN <<Cand(1, v1)>> ELSE <<>>)
          [] d.k = "d" ->
                \* 3[0-1]|[1-2]\d|0[1-9]|[1-9]| [1-9]
                (IF both /\ v1 = 3 /\ v2 <= 1 THEN <<Cand(2, 30 + v2)>> ELSE <<>>)
                \o (IF both /\ v1 \in {1, 2} THEN <<Cand(2, 10 * v1 + v2)>> ELSE <<>>)
                \o (IF both /\ v1 = 0 /\ v2 >= 1 THEN <<Cand(2, v2)>> ELSE <<>>)
                \o (IF IsDigit(c1) /\ v1 >= 1 THEN <<Cand(1, v1)>> ELSE <<>>)
                \o (IF c1 = " " /\ IsDigit(c2) /\ v2 >= 1 THEN <<Cand(2, v2)>> ELSE <<>>)
          [] d.k = "B" -> NameCands(s, i, MonthNames)
          [] d.k = "b" -> NameCands(s, i, MonthAbbrs)

NoMatch == [ok |-> FALSE, Y |-> 0, m |-> 0, d |-> 0]

\* re.match of the compiled format against s from position i, the format
\* from item j on; then strptime's "unconverted data remains" test.
RECURSIVE StrpMatch(_, _, _, _, _)
RECURSIVE StrpTry(_, _, _, _, _, _, _)
StrpMatch(s, i, fmt, j, acc) ==
    IF j > Len(fmt)
    THEN IF i = Len(s) + 1 THEN [acc EXCEPT !.ok = TRUE] ELSE NoMatch
    ELSE StrpTry(s, i, fmt, j, acc, DirCands(s, i, fmt[j]), 1)

StrpTry(s, i, fmt, j, acc, cands, c) ==
    IF c > Len(cands) THEN NoMatch
    ELSE LET k == fmt[j].k
             v == cands[c].v
             acc2 == CASE k = "Y" -> [acc EXCEPT !.Y = v]
                       [] k \in {"m", "B", "b"} -> [acc EXCEPT !.m = v]
                       [] k = "d" -> [acc EXCEPT !.d = v]
                       [] OTHER -> acc
             r == StrpMatch(s, i + cands[c].n, fmt, j + 1, acc2)
         IN  IF r.ok THEN r ELSE StrpTry(s, i, fmt, j, acc, cands, c + 1)

IsLeap(y) == (y % 4 = 0 /\ y % 100 # 0) \/ y % 400 = 0

DaysInMonth(y, m) ==
    CASE m \in {4, 6, 9, 11} -> 30
      [] m = 2 -> IF IsLeap(y) THEN 29 ELSE 28
      [] OTHER -> 31

\* datetime.strptime(s, fmt): the date read, or not ok for ValueError (no
\* match, unconverted data, or a day the calendar does not have).
Strptime(s, fmt) ==
    LET r == StrpMatch(s, 1, fmt, 1, NoMatch)
    IN  IF r.ok /\ r.Y >= 1 /\ r.d <= DaysInMonth(r.Y, r.m) THEN r ELSE NoMatch

\* strftime("%Y-%m-%d").  The C library formats %Y: glibc writes a year
\* below 1000 without leading zeros, other libraries pad it to four digits.
Strftime(dt, padYear) ==
    (IF dt.Y >= 1000 \/ padYear THEN FourDigits(dt.Y) ELSE Decimal(dt.Y))
    \o <<"-">> \o TwoDigits(dt.m) \o <<"-">> \o TwoDigits(dt.d)

RECURSIVE TryFormats(_, _, _)
TryFormats(s, f, padYear) ==
    IF f > Len(DateFormats) THEN Today
    ELSE LET dt == Strptime(s, DateFormats[f])
         IN  IF dt.ok THEN Strftime(dt, padYear)
             ELSE TryFormats(s, f + 1, padYear)

\* parse_event_date(date_str): date_str is the event's "date" value, or ""
\* for a falsy one.
parse_event_date(date_str, padYear) ==
    IF ~Truthy(date_str) THEN Today
    ELSE LET s == Strip(PyStr(date_str))
         IN  IF MatchesCanonicalRegex(s) THEN s
             ELSE TryFormats(s, 1, padYear)

(***************************************************************************)
(* The model reply: extract_course_and_events_with_gemini                  *)
(***************************************************************************)
\* Tokens of a reply, each with its length in characters.
Fence == [k |-> "fence", len |-> 3, v |-> JNull]
Word(n) == [k |-> "word", len |-> n, v |-> JNull]
JsonTag == [k |-> "jsontag", len |-> 4, v |-> JNull]
Ws == [k |-> "ws", len |-> 1, v |-> JNull]
Junk(n) == [k |-> "junk", len |-> n, v |-> JNull]
Doc(v, n) == [k |-> "doc", len |-> n, v |-> v]

RECURSIVE CharLen(_)
CharLen(raw) == IF raw = <<>> THEN 0 ELSE Head(raw).len + CharLen(Tail(raw))

RECURSIVE LStripWs(_)
LStripWs(raw) ==
    IF raw # <<>> /\ Head(raw).k = "ws" THEN LStripWs(Tail(raw)) ELSE raw

RECURSIVE RStripWs(_)
RStripWs(raw) ==
    IF raw # <<>> /\ raw[Len(raw)].k = "ws"
    THEN RStripWs(SubSeq(raw, 1, Len(raw) - 1))
    ELSE raw

StripWs(raw) == RStripWs(LStripWs(raw))

\* re.sub(r"^```(?:json)?\s*", "", raw), raw starting with a fence
DropOpeningFence(raw) ==
    LET a == Tail(raw)
        b == IF a # <<>> /\ Head(a).k = "jsontag" THEN Tail(a) ELSE a
    IN  LStripWs(b)

\* re.sub(r"\s*```\s*$", "", raw)
DropClosingFence(raw) ==
    LET a == RStripWs(raw)
    IN  IF a # <<>> /\ a[Len(a)].k = "fence"
        THEN RStripWs(SubSeq(a, 1, Len(a) - 1))
        ELSE raw

\* raw = (response.text or "").strip(), then the fences removed when raw
\* starts with one.
StripFences(text) ==
    LET raw == StripWs(text)
    IN  IF raw # <<>> /\ Head(raw).k = "fence"
        THEN DropClosingFence(DropOpeningFence(raw))
        ELSE raw

\* json.loads(raw) succeeds when raw is one JSON document, blanks around it
\* allowed.
IsJson(raw) == Len(StripWs(raw)) = 1 /\ StripWs(raw)[1].k = "doc"

RawPrefixLen == 500

\* Fault: the detail quotes the whole raw reply.
RawPrefix_Whole(raw) == CharLen(raw)

\* raw[:500], by its length
RawPrefix(raw) == Min(CharLen(raw), RawPrefixLen)

AiResult(exc, course, events, prefix) ==
    [exc |-> exc, course |-> course, events |-> events, prefix |-> prefix]

\* The branches on the parsed value (lines 115-126).  .strip() on a course
\* that is truthy and not a str raises AttributeError.
CourseAndEvents(data) ==
    IF data.t = "list" THEN AiResult("none", None, data.items, 0)
    ELSE IF data.t = "obj" THEN
        LET c == IF Truthy(Get(data, "course")) THEN Get(data, "course") ELSE JStr(<<>>)
            e == Get(data, "events")
            events == IF e.t = "null" THEN <<>>
                      ELSE IF e.t = "list" THEN e.items
                      ELSE IF e.t = "obj" THEN <<e>>
                      ELSE <<>>
        IN  IF c.t # "str" THEN AiResult("AttributeError", None, <<>>, 0)
            ELSE AiResult("none", StripOrNone(c.s), events, 0)
    ELSE AiResult("none", None, <<>>, 0)

\* reply: what generate_content and response.text give: an exception, or
\* the text of the reply.
extract_course_and_events_with_gemini(reply) ==
    IF reply.exc # "none" THEN AiResult(reply.exc, None, <<>>, 0)
    ELSE LET raw == StripFences(reply.text)
         IN  IF ~IsJson(raw)
             THEN AiResult("ValueError", None, <<>>, RawPrefix(raw))
             ELSE CourseAndEvents(StripWs(raw)[1].v)

(***************************************************************************)
(* Rows                                                                    *)
(***************************************************************************)
Untitled == <<"U", "n", "t", "i", "t", "l", "e", "d">>
TypePrefix == <<"T", "y", "p", "e", ":", " ">>
DefaultFilename == <<"s", "y", "l", "l", "a", "b", "u", "s", ".", "p", "d", "f">>
UnnamedCourse == <<"U", "n", "n", "a", "m", "e", "d", " ", "c", "o", "u", "r", "s", "e">>

\* One row of the loop at lines 218-230, for an event that is a dict.
Row(ev, user_id, source_filename, file_url, course_name, padYear) ==
    LET title == IF Truthy(Get(ev, "title")) THEN Get(ev, "title") ELSE JStr(Untitled)
        date_str == IF Truthy(Get(ev, "date")) THEN Get(ev, "date") ELSE JStr(<<>>)
        event_type == IF Truthy(Get(ev, "type")) THEN Get(ev, "type") ELSE JStr(<<>>)
    IN  [user_id |-> user_id,
         source_filename |-> source_filename,
         source_url |-> file_url,
         course_name |-> course_name,
         event_date |-> parse_event_date(date_str, padYear),
         event_title |-> title,
         event_description |->
             IF Truthy(event_type) THEN TypePrefix \o PyStr(event_type) ELSE None]

\* Fault: the course read by the model is preferred to the caller's.
ResolveCourse_ModelFirst(course_override, course_from_ai) ==
    IF course_from_ai # None THEN course_from_ai
    ELSE IF course_override # None THEN course_override
    ELSE UnnamedCourse

\* course_override or course_from_ai or "Unnamed course"
ResolveCourse(course_override, course_from_ai) ==
    IF course_override # None THEN course_override
    ELSE IF course_from_ai # None THEN course_from_ai
    ELSE UnnamedCourse

(***************************************************************************)
(* The handlers                                                            *)
(***************************************************************************)
\* Requests handled in one run of the server.
MaxRequests == 3

\* FastAPI runs each def endpoint in a worker thread of its pool.
Threads == {"t1", "t2"}

VARIABLES
    environ,               \* the process environment, as load_dotenv leaves it
    SUPABASE_URL,          \* line 29, stripped
    SUPABASE_SERVICE_KEY,  \* line 30, stripped
    padYear,               \* whether the platform's strftime pads %Y
    _supabase,             \* the module's client: None or a handle
    handles,               \* clients create_client has constructed
    store,                 \* the rows of table "events", in insertion order
    th,                    \* each worker thread's request in progress; its
                           \* calls, added and removed record what it did
    nreq                   \* requests started

vars == <<environ, SUPABASE_URL, SUPABASE_SERVICE_KEY, padYear, _supabase, handles,
          store, th, nreq>>

NoCalls == [fetch |-> 0, extract |-> 0, model |-> 0, insert |-> 0, delete |-> 0]

NotReached == [exc |-> "not reached"]

\* What the calls a request made to the outside gave it; db is the outcome
\* of its persistence operation.
NoInputs ==
    [fetch |-> NotReached, pdf |-> NotReached, reply |-> NotReached,
     db |-> "not reached"]

NoResp == [status |-> 0, kind |-> "none", events |-> <<>>, count |-> 0,
           course_name |-> None, prefix |-> 0]

\* The dict a handler returns.
Ok(kind, events, course_name) ==
    [status |-> 200, kind |-> kind, events |-> events, count |-> Len(events),
     course_name |-> course_name, prefix |-> 0]

\* HTTPException(status_code, detail); prefix is the length of the part of
\* the raw reply the detail quotes.
HttpError(status, kind, prefix) ==
    [status |-> status, kind |-> kind, events |-> <<>>, count |-> 0,
     course_name |-> None, prefix |-> prefix]

NoAi == AiResult("not reached", None, <<>>, 0)

Idle ==
    [pc |-> "idle", op |-> "none", body |-> None, inp |-> NoInputs,
     ai |-> NoAi, rows |-> <<>>, course_name |-> None, supa |-> None,
     resp |-> NoResp,
     calls |-> NoCalls, added |-> <<>>, removed |-> 0]

\* os.getenv(name): unset, blank, or a value.
EnvValues == {None, <<" ">>, <<" ", "k">>}

\* (os.getenv(name) or "").strip()
EnvStripped(v) == IF v = None THEN <<>> ELSE Strip(v)

Init ==
    /\ environ \in [{"SUPABASE_URL", "SUPABASE_SERVICE_ROLE_KEY"} -> EnvValues]
    /\ SUPABASE_URL = EnvStripped(environ["SUPABASE_URL"])
    /\ SUPABASE_SERVICE_KEY = EnvStripped(environ["SUPABASE_SERVICE_ROLE_KEY"])
    /\ padYear \in BOOLEAN
    /\ _supabase = None
    /\ handles = 0
    /\ store = <<>>
    /\ th = [t \in Threads |-> Idle]
    /\ nreq = 0

Unchanged_env == UNCHANGED <<environ, SUPABASE_URL, SUPABASE_SERVICE_KEY, padYear>>

\* health(), lines 146-149
Health(t) ==
    /\ th[t].pc = "idle"
    /\ nreq < MaxRequests
    /\ nreq' = nreq + 1
    /\ th' = [th EXCEPT ![t] = [Idle EXCEPT !.pc = "done", !.op = "health",
                                            !.resp = Ok("status", <<>>, None)]]
    /\ Unchanged_env
    /\ UNCHANGED <<_supabase, handles, store>>

\* extract_text_from_pdf_bytes, lines 80-86: the pages' texts, each followed
\* by a newline, stripped.
RECURSIVE JoinPages(_)
JoinPages(pages) ==
    IF pages = <<>> THEN <<>>
    ELSE Head(pages) \o <<"\n">> \o JoinPages(Tail(pages))

\* Fault: the text is returned without strip().
extract_text_Unstripped(pdf) == JoinPages(pdf.pages)

extract_text_from_pdf_bytes(pdf) == Strip(JoinPages(pdf.pages))

\* The rows of the loop at lines 217-230; ev.get on an event that is not a
\* dict raises AttributeError.
BuildRows(events, user_id, source_filename, file_url, course_name, pad) ==
    IF \E k \in 1..Len(events) : events[k].t # "obj"
    THEN [exc |-> "AttributeError", rows |-> <<>>]
    ELSE [exc |-> "none",
          rows |-> [k \in 1..Len(events) |->
                       Row(events[k], user_id, source_filename, file_url,
                           course_name, pad)]]

\* Fault: process_syllabus without its except Exception clause.
ServerError_Unhandled == [NoResp EXCEPT !.kind = "unhandled exception"]

\* The except clause of process_syllabus, lines 159-160: any exception that
\* is not an HTTPException becomes a 500.
ServerError == HttpError(500, "server", 0)

\* Lines 184-187: the request's fields, normalised.
FileUrl(body) == Strip(body.file_url)
UserId(body) ==
    IF body.user_id \notin {None, <<>>} THEN Strip(body.user_id) ELSE None
SourceFilename(body) ==
    Strip(IF body.source_filename \in {None, <<>>}
          THEN DefaultFilename ELSE body.source_filename)
CourseOverride(body) == StripOrNone(body.course_name)

\* process_syllabus, lines 152-156 and 184-198: a request arrives and the
\* document is fetched.
Fetch(t, body, fetch) ==
    /\ th[t].pc = "idle"
    /\ nreq < MaxRequests
    /\ nreq' = nreq + 1
    /\ LET s == [Idle EXCEPT !.op = "process", !.body = body,
                             !.calls.fetch = @ + 1, !.inp.fetch = fetch]
       IN  th' = [th EXCEPT ![t] =
                IF fetch.exc # "none"
                THEN [s EXCEPT !.pc = "done", !.resp = HttpError(400, "download", 0)]
                ELSE IF fetch.len = 0
                THEN [s EXCEPT !.pc = "done", !.resp = HttpError(400, "empty", 0)]
                ELSE [s EXCEPT !.pc = "extract_text"]]
    /\ Unchanged_env
    /\ UNCHANGED <<_supabase, handles, store>>

\* Lines 200-207: the text of the document.
ExtractText(t, pdf) ==
    /\ th[t].pc = "extract_text"
    /\ LET s == [th[t] EXCEPT !.calls.extract = @ + 1, !.inp.pdf = pdf]
       IN  th' = [th EXCEPT ![t] =
                IF pdf.exc # "none"
                THEN [s EXCEPT !.pc = "done", !.resp = HttpError(400, "read", 0)]
                ELSE IF extract_text_from_pdf_bytes(pdf) = <<>>
                THEN [s EXCEPT !.pc = "done", !.resp = HttpError(400, "no_text", 0)]
                ELSE [s EXCEPT !.pc = "call_model"]]
    /\ Unchanged_env
    /\ UNCHANGED <<_supabase, handles, store, nreq>>

\* Lines 209-232 and 241: the model is called, its reply parsed, the rows
\* built; without rows the handler returns at once.
CallModel(t, reply) ==
    /\ th[t].pc = "call_model"
    /\ LET body == th[t].body
           ai == extract_course_and_events_with_gemini(reply)
           course_name == ResolveCourse(CourseOverride(body), ai.course)
           built == BuildRows(ai.events, UserId(body), SourceFilename(body),
                              FileUrl(body), course_name, padYear)
           s == [th[t] EXCEPT !.calls.model = @ + 1, !.inp.reply = reply,
                                !.ai = ai]
       IN  th' = [th EXCEPT ![t] =
                IF ai.exc = "ValueError"
                THEN [s EXCEPT !.pc = "done",
                               !.resp = HttpError(502, "model_output", ai.prefix)]
                ELSE IF ai.exc # "none" \/ built.exc # "none"
                THEN [s EXCEPT !.pc = "done", !.resp = ServerError]
                ELSE IF built.rows = <<>>
                THEN [s EXCEPT !.pc = "done", !.course_name = course_name,
                               !.resp = Ok("events", <<>>, course_name)]
                ELSE [s EXCEPT !.pc = "get_supabase", !.rows = built.rows,
                               !.course_name = course_name]]
    /\ Unchanged_env
    /\ UNCHANGED <<_supabase, handles, store, nreq>>

\* delete_class, lines 163-167: a request arrives and calls get_supabase.
DeleteClass(t, body) ==
    /\ th[t].pc = "idle"
    /\ nreq < MaxRequests
    /\ nreq' = nreq + 1
    /\ th' = [th EXCEPT ![t] = [Idle EXCEPT !.op = "delete", !.body = body,
                                            !.pc = "get_supabase"]]
    /\ Unchanged_env
    /\ UNCHANGED <<_supabase, handles, store>>

\* The except clauses around a persistence call: lines 235-239 and 175-179.
PersistenceError(op) ==
    HttpError(500, IF op = "process" THEN "save" ELSE "delete", 0)

\* Fault: "and" for "or" in the test of the configuration.
ConfigMissing_Both == SUPABASE_URL = <<>> /\ SUPABASE_SERVICE_KEY = <<>>

\* Whether get_supabase raises ValueError (line 38).
ConfigMissing == SUPABASE_URL = <<>> \/ SUPABASE_SERVICE_KEY = <<>>

\* get_supabase, lines 37-38 and 44: the test of the global.
GetSupabase(t) ==
    /\ th[t].pc = "get_supabase"
    /\ IF _supabase # None
       THEN th' = [th EXCEPT ![t].pc = "execute", ![t].supa = _supabase]
       ELSE IF ConfigMissing
       THEN th' = [th EXCEPT ![t].pc = "done",
                             ![t].inp.db = "ConfigError",
                             ![t].resp = PersistenceError(th[t].op)]
       ELSE th' = [th EXCEPT ![t].pc = "create_client"]
    /\ Unchanged_env
    /\ UNCHANGED <<_supabase, handles, store, nreq>>

\* A client object, by its order of construction.
Client(n) == <<"client", n>>

\* get_supabase, line 43: create_client returns a new client, which is
\* stored in the global, or raises.
CreateClient(t, ok) ==
    /\ th[t].pc = "create_client"
    /\ IF ok
       THEN /\ handles' = handles + 1
            /\ _supabase' = Client(handles + 1)
            /\ th' = [th EXCEPT ![t].pc = "return_client"]
       ELSE /\ UNCHANGED <<handles, _supabase>>
            /\ th' = [th EXCEPT ![t].pc = "done",
                                ![t].inp.db = "CreateError",
                                ![t].resp = PersistenceError(th[t].op)]
    /\ Unchanged_env
    /\ UNCHANGED <<store, nreq>>

\* get_supabase, line 44, after a construction: the global is read again.
ReturnClient(t) ==
    /\ th[t].pc = "return_client"
    /\ th' = [th EXCEPT ![t].pc = "execute", ![t].supa = _supabase]
    /\ Unchanged_env
    /\ UNCHANGED <<_supabase, handles, store, nreq>>

\* Fault: the delete filters on the course only.
Matches_CourseOnly(row, body) == row.course_name = body.course_name

\* .eq("user_id", ...).eq("course_name", ...)
Matches(row, body) ==
    row.user_id = body.user_id /\ row.course_name = body.course_name

Remaining(rows, body) ==
    LET Keep(r) == ~Matches(r, body) IN SelectSeq(rows, Keep)

\* Fault: the rows are inserted one call at a time, so that a failure leaves
\* the first row in the store.
Insert_RowByRow(t, ok) ==
    /\ th[t].pc = "execute"
    /\ th[t].op = "process"
    /\ IF ok
       THEN /\ store' = store \o th[t].rows
            /\ th' = [th EXCEPT ![t].pc = "done",
                                ![t].calls.insert = Len(th[t].rows),
                                ![t].inp.db = "ok",
                                ![t].added = SubSeq(store', Len(store) + 1,
                                                    Len(store')),
                                ![t].resp = Ok("events", th[t].rows,
                                               th[t].course_name)]
       ELSE /\ store' = Append(store, th[t].rows[1])
            /\ th' = [th EXCEPT ![t].pc = "done",
                                ![t].calls.insert = 2,
                                ![t].inp.db = "ExecuteError",
                                ![t].added = SubSeq(store', Len(store) + 1,
                                                    Len(store')),
                                ![t].resp = PersistenceError("process")]
    /\ Unchanged_env
    /\ UNCHANGED <<_supabase, handles, nreq>>

\* insert(rows).execute(), lines 234-241: the store takes all the rows and
\* the handler returns them, or the call raises and the store takes none.
Insert(t, ok) ==
    /\ th[t].pc = "execute"
    /\ th[t].op = "process"
    /\ IF ok
       THEN /\ store' = store \o th[t].rows
            /\ th' = [th EXCEPT ![t].pc = "done",
                                ![t].calls.insert = @ + 1,
                                ![t].inp.db = "ok",
                                ![t].added = SubSeq(store', Len(store) + 1,
                                                    Len(store')),
                                ![t].resp = Ok("events", th[t].rows,
                                               th[t].course_name)]
       ELSE /\ store' = store
            /\ th' = [th EXCEPT ![t].pc = "done",
                                ![t].calls.insert = @ + 1,
                                ![t].inp.db = "ExecuteError",
                                ![t].resp = PersistenceError("process")]
    /\ Unchanged_env
    /\ UNCHANGED <<_supabase, handles, nreq>>

\* delete().eq().eq().execute(), lines 168-180.
Delete(t, ok) ==
    /\ th[t].pc = "execute"
    /\ th[t].op = "delete"
    /\ IF ok
       THEN /\ store' = Remaining(store, th[t].body)
            /\ th' = [th EXCEPT ![t].pc = "done",
                                ![t].calls.delete = @ + 1,
                                ![t].inp.db = "ok",
                                ![t].removed = Len(store) - Len(store'),
                                ![t].resp = Ok("status", <<>>, None)]
       ELSE /\ store' = store
            /\ th' = [th EXCEPT ![t].pc = "done",
                                ![t].calls.delete = @ + 1,
                                ![t].inp.db = "ExecuteError",
                                ![t].resp = PersistenceError("delete")]
    /\ Unchanged_env
    /\ UNCHANGED <<_supabase, handles, nreq>>

\* The response is sent and the worker thread is free again.
Finish(t) ==
    /\ th[t].pc = "done"
    /\ th' = [th EXCEPT ![t] = Idle]
    /\ Unchanged_env
    /\ UNCHANGED <<_supabase, handles, store, nreq>>

(***************************************************************************)
(* The requests and the outcomes of the external calls that are tried      *)
(***************************************************************************)
Body(user_id, course_name) ==
    [file_url |-> <<" ", "f">>, user_id |-> user_id, source_filename |-> None,
     course_name |-> course_name]

ProcessBodies ==
    {Body(u, c) : u \in {None, <<"u", " ">>}, c \in {None, <<" ">>, <<" ", "A">>}}

DeleteBodies ==
    {[user_id |-> u, course_name |-> c] :
        u \in {<<"u">>, <<"u", " ">>}, c \in {<<"A">>, <<"C">>, UnnamedCourse}}

Fetched(exc, len) == [exc |-> exc, len |-> len]

\* requests.get raises (ConnectionError, Timeout, ...), raise_for_status
\* raises HTTPError, or the body arrives; all that is raised here is a
\* RequestException.
FetchOutcomes ==
    {Fetched("ConnectionError", 0), Fetched("HTTPError", 0), Fetched("none", 0),
     Fetched("none", 1)}

Pdf(exc, pages) == [exc |-> exc, pages |-> pages]

PdfOutcomes ==
    {Pdf("PdfReadError", <<>>), Pdf("none", <<>>), Pdf("none", <<<<" ">>>>),
     Pdf("none", <<<<"h", "i">>, <<>>>>)}

Text(tokens) == [exc |-> "none", text |-> tokens]

EvExam ==
    JObj([title |-> JStr(<<"E">>), date |-> JStr(<<"2", "0", "2", "5", "-", "0", "3", "-", "1", "5">>),
          type |-> JStr(<<"X">>)])
EvSlash == JObj([title |-> JStr(<<"H">>), date |-> JStr(<<"0", "3", "/", "1", "5", "/", "2", "0", "2", "5">>)])
EvOld == JObj([date |-> JStr(<<"0", "1", "/", "0", "1", "/", "0", "9", "9", "9">>), type |-> JNum(7)])
EvBad == JObj([title |-> JNull, date |-> JStr(<<"x">>)])
EvLong == JObj([title |-> JStr(<<"L">>), date |-> JStr(<<"M", "a", "r", "c", "h", " ", "5", ",", " ", "2", "0", "2", "4">>)])
EvDayFirst == JObj([title |-> JStr(<<"D">>), date |-> JStr(<<" ", "2", "9", " ", "F", "E", "B", "R", "U", "A", "R", "Y", " ", "2", "0", "2", "4">>)])
EvNoSuchDay == JObj([title |-> JNum(3), date |-> JStr(<<"0", "2", "/", "3", "0", "/", "2", "0", "2", "5">>), type |-> JStr(<<>>)])

Replies ==
    {[exc |-> "ApiError"], [exc |-> "ValueError"],
     Text(<<>>),
     Text(<<Junk(501)>>),
     Text(<<Fence, Word(6), Ws, Doc(JList(<<>>), 2), Ws, Fence>>),
     Text(<<Doc(JObj([course |-> JStr(<<"C", " ">>),
                      events |-> JList(<<EvExam, EvLong>>)]), 120)>>),
     Text(<<Ws, Fence, JsonTag, Ws,
            Doc(JObj([course |-> JNull, events |-> EvOld]), 40), Ws, Fence>>),
     Text(<<Doc(JList(<<EvDayFirst, EvNoSuchDay>>), 90)>>),
     Text(<<Doc(JObj([course |-> JStr(<<"C">>), events |-> JStr(<<"e">>)]), 30)>>),
     Text(<<Fence, Ws, Doc(JObj([course |-> JStr(<<" ">>)]), 15), Ws, Fence>>),
     Text(<<Doc(JObj([course |-> JNum(161), events |-> JList(<<EvExam>>)]), 30)>>),
     Text(<<Doc(JList(<<JNum(1)>>), 3)>>),
     Text(<<Doc(JNum(5), 1)>>)}

\* The requests tried while two worker threads run side by side.
FewProcessBodies == {Body(None, None), Body(<<"u", " ">>, None)}

FewDeleteBodies ==
    {[user_id |-> <<"u">>, course_name |-> c] : c \in {<<"A">>, <<"C">>}}

FewFetchOutcomes == {Fetched("HTTPError", 0), Fetched("none", 1)}

FewPdfOutcomes == {Pdf("none", <<<<"h", "i">>, <<>>>>)}

FewReplies ==
    {Text(<<Junk(501)>>),
     Text(<<Doc(JObj([course |-> JStr(<<"C", " ">>), events |-> JList(<<EvExam>>)]), 60)>>),
     Text(<<Doc(JList(<<EvBad, EvSlash>>), 50)>>),
     Text(<<Doc(JNum(5), 1)>>)}

\* One step of thread t, the requests and outcomes drawn from the given sets.
Step(t, bodies, fetches, pdfs, replies, deletes) ==
    \/ Health(t)
    \/ \E body \in bodies, fetch \in fetches : Fetch(t, body, fetch)
    \/ \E pdf \in pdfs : ExtractText(t, pdf)
    \/ \E reply \in replies : CallModel(t, reply)
    \/ \E body \in deletes : DeleteClass(t, body)
    \/ GetSupabase(t)
    \/ \E ok \in BOOLEAN : CreateClient(t, ok)
    \/ ReturnClient(t)
    \/ \E ok \in BOOLEAN : Insert(t, ok)
    \/ \E ok \in BOOLEAN : Delete(t, ok)
    \/ Finish(t)

\* The worker threads handle requests side by side.
Next ==
    \E t \in Threads :
        Step(t, FewProcessBodies, FewFetchOutcomes, FewPdfOutcomes, FewReplies,
             FewDeleteBodies)

Spec == Init /\ [][Next]_vars

\* One worker thread handles the requests one after the other.
NextSerial ==
    Step("t1", ProcessBodies, FetchOutcomes, PdfOutcomes, Replies, DeleteBodies)

SpecSerial == Init /\ [][NextSerial]_vars

(***************************************************************************)
(* Properties                                                              *)
(***************************************************************************)
Processing(t) == th[t].op = "process"
Done(t) == th[t].pc = "done"
Succeeded(t) == Done(t) /\ th[t].resp.status = 200

\* The document could not be fetched or read: the fetch raised, the payload
\* has no bytes, the extraction raised, or the text is blank.
AllBlank(s) == \A k \in 1..Len(s) : s[k] \in Whitespace

FetchFailed(t) == th[t].inp.fetch.exc \notin {"none", "not reached"}
EmptyPayload(t) == th[t].inp.fetch.exc = "none" /\ th[t].inp.fetch.len = 0
ExtractionFailed(t) == th[t].inp.pdf.exc \notin {"none", "not reached"}
BlankText(t) ==
    th[t].inp.pdf.exc = "none" /\ AllBlank(JoinPages(th[t].inp.pdf.pages))

DocumentFailed(t) ==
    FetchFailed(t) \/ EmptyPayload(t) \/ ExtractionFailed(t) \/ BlankText(t)

NoPersistenceCall(t) ==
    /\ th[t].calls.insert = 0
    /\ th[t].calls.delete = 0
    /\ th[t].inp.db = "not reached"
    /\ th[t].supa = None
    /\ th[t].added = <<>>

\* C1: a process_syllabus request that succeeds returns exactly the rows it
\* added to the store, one per event of the reply, in order, with their
\* count; one that fails added none; no request makes more than one insert
\* call.
C1_InsertAllOrNothing ==
    \A t \in Threads :
        Processing(t) =>
            /\ th[t].calls.insert <= 1
            /\ ~Done(t) => th[t].added = <<>>
            /\ (Done(t) /\ th[t].resp.status # 200) => th[t].added = <<>>
            /\ Succeeded(t) =>
                /\ th[t].resp.events = th[t].added
                /\ th[t].resp.count = Len(th[t].added)
                /\ Len(th[t].added) = Len(th[t].ai.events)
                /\ \A k \in 1..Len(th[t].added) :
                       th[t].added[k] =
                           Row(th[t].ai.events[k], UserId(th[t].body),
                               SourceFilename(th[t].body), FileUrl(th[t].body),
                               th[t].resp.course_name, padYear)

\* C1's case: a request has succeeded with two rows, beside rows of another.
C1_Witness ==
    \E t \in Threads :
        /\ Processing(t) /\ Succeeded(t)
        /\ Len(th[t].added) = 2
        /\ Len(store) > 2

\* C2: when the fetch fails, the payload is empty, the extraction fails or
\* the text is blank, the request ends with status 400 and has called
\* neither the model nor the store.
C2_DocumentFailureStopsEarly ==
    \A t \in Threads :
        (Processing(t) /\ DocumentFailed(t)) =>
            /\ Done(t)
            /\ th[t].resp.status = 400
            /\ th[t].calls.model = 0
            /\ th[t].inp.reply = NotReached
            /\ NoPersistenceCall(t)

\* C2's case: the document's only page is blank.
C2_Witness ==
    \E t \in Threads :
        /\ Processing(t) /\ Done(t) /\ BlankText(t)
        /\ th[t].inp.pdf.pages # <<>>
        /\ th[t].resp.status = 400

\* The reply was received and is not one JSON document once its fences are
\* removed.
InvalidJsonReply(t) ==
    /\ th[t].inp.reply # NotReached
    /\ th[t].inp.reply.exc = "none"
    /\ ~IsJson(StripFences(th[t].inp.reply.text))

\* C3: a reply that is not valid JSON after fence stripping ends the request
\* with status 502, the detail quoting the first 500 characters of the raw
\* reply at most, and no persistence call is made.
C3_InvalidJsonIs502 ==
    \A t \in Threads :
        (Processing(t) /\ InvalidJsonReply(t)) =>
            /\ Done(t)
            /\ th[t].resp.status = 502
            /\ th[t].resp.prefix <= 500
            /\ th[t].resp.prefix <= CharLen(StripFences(th[t].inp.reply.text))
            /\ (CharLen(StripFences(th[t].inp.reply.text)) <= 500
                   => th[t].resp.prefix = CharLen(StripFences(th[t].inp.reply.text)))
            /\ NoPersistenceCall(t)

\* C3's case: a reply of more than 500 characters that is not JSON.
C3_Witness ==
    \E t \in Threads :
        /\ Processing(t) /\ Done(t) /\ InvalidJsonReply(t)
        /\ CharLen(th[t].inp.reply.text) > 500
        /\ th[t].resp.prefix = 500

\* The model call or the handling of its reply raised something other than
\* the ValueError of an invalid reply.
UnexpectedFailure(t) ==
    /\ th[t].inp.reply # NotReached
    /\ \/ th[t].ai.exc \in {"ApiError", "AttributeError"}
       \/ /\ th[t].ai.exc = "none"
          /\ \E k \in 1..Len(th[t].ai.events) : th[t].ai.events[k].t # "obj"

PersistenceFailed(t) ==
    th[t].inp.db \in {"ConfigError", "CreateError", "ExecuteError"}

\* The status the interface gives for what happened to the request.
StatusDue(t) ==
    IF th[t].op = "process"
    THEN IF DocumentFailed(t) THEN 400
         ELSE IF th[t].ai.exc = "ValueError" THEN 502
         ELSE IF UnexpectedFailure(t) \/ PersistenceFailed(t) THEN 500
         ELSE 200
    ELSE IF PersistenceFailed(t) THEN 500 ELSE 200

\* C4: every request ends with a response; a failed step gives an error
\* with its status (400 document, 502 model output, 500 persistence or
\* anything else; delete_class 500), never a success and never an unhandled
\* exception, and no step is tried twice.
C4_FailuresBecomeErrors ==
    \A t \in Threads :
        /\ Done(t) =>
            /\ th[t].resp.status \in {200, 400, 500, 502}
            /\ th[t].resp.status = StatusDue(t)
            /\ th[t].resp.kind # "unhandled exception"
        /\ \A c \in DOMAIN th[t].calls : th[t].calls[c] <= 1

\* C4's case: a failure no except clause of the pipeline names (a course
\* that is a number) ended as a 500.
C4_Witness ==
    \E t \in Threads :
        /\ Processing(t) /\ Done(t)
        /\ th[t].ai.exc = "AttributeError"
        /\ th[t].resp.status = 500

\* The first non-empty of the trimmed override, the model's course, the
\* placeholder.
CourseDue(t) ==
    LET o == th[t].body.course_name
    IN  IF o # None /\ ~AllBlank(o) THEN Strip(o)
        ELSE IF th[t].ai.course # None THEN th[t].ai.course
        ELSE UnnamedCourse

NonEmptyName(c) == c # None /\ c # <<>> /\ ~AllBlank(c)

\* C5: the course_name of the response and of every row built is the first
\* non-empty of the trimmed override, the trimmed model course and "Unnamed
\* course"; a row's course_name is never empty.
C5_CourseNamePriority ==
    /\ \A t \in Threads :
        (Processing(t) /\ (th[t].rows # <<>> \/ Succeeded(t))) =>
            /\ th[t].course_name = CourseDue(t)
            /\ NonEmptyName(th[t].course_name)
            /\ \A k \in 1..Len(th[t].rows) :
                   th[t].rows[k].course_name = CourseDue(t)
            /\ Succeeded(t) =>
                /\ th[t].resp.course_name = CourseDue(t)
                /\ \A k \in 1..Len(th[t].resp.events) :
                       th[t].resp.events[k].course_name = CourseDue(t)
    /\ \A k \in 1..Len(store) : NonEmptyName(store[k].course_name)

\* C5's case: the caller's override and the model's course differ and the
\* rows stored carry the override.
C5_Witness ==
    \E t \in Threads :
        /\ Processing(t) /\ Succeeded(t)
        /\ th[t].body.course_name = <<" ", "A">>
        /\ th[t].ai.course = <<"C">>
        /\ th[t].resp.course_name = <<"A">>
        /\ th[t].added # <<>>

\* YYYY-MM-DD
CanonicalForm(d) ==
    /\ Len(d) = 10
    /\ \A k \in {1, 2, 3, 4, 6, 7, 9, 10} : IsDigit(d[k])
    /\ d[5] = "-" /\ d[8] = "-"

\* C6: every row of the store has an event_date in the form YYYY-MM-DD.
C6_StoredDatesCanonical ==
    \A k \in 1..Len(store) : CanonicalForm(store[k].event_date)

\* The rows of rows that a delete of (user_id, course_name) leaves.
RECURSIVE Without(_, _, _)
Without(rows, user_id, course_name) ==
    IF rows = <<>> THEN <<>>
    ELSE IF Head(rows).user_id = user_id /\ Head(rows).course_name = course_name
    THEN Without(Tail(rows), user_id, course_name)
    ELSE <<Head(rows)>> \o Without(Tail(rows), user_id, course_name)

IsPrefix(a, b) == Len(a) <= Len(b) /\ SubSeq(b, 1, Len(a)) = a

DeleteReturns(t) ==
    th[t].op = "delete" /\ th[t].pc = "execute" /\ th'[t].pc = "done"

\* C7: a delete_class that succeeds removes exactly the rows with its
\* user_id and course_name and answers ok, also when none matches; one that
\* fails leaves the store as it is; every other step only appends rows.
C7_DeleteExactlyMatching ==
    [][/\ \A t \in Threads :
            DeleteReturns(t) =>
                IF th'[t].resp.status = 200
                THEN /\ store' = Without(store, th[t].body.user_id,
                                         th[t].body.course_name)
                     /\ th'[t].resp = Ok("status", <<>>, None)
                ELSE store' = store
       /\ (\A t \in Threads : ~DeleteReturns(t)) => IsPrefix(store, store')
      ]_vars

\* C7's case: a delete has removed rows and left the rows of others.
C7_Witness ==
    \E t \in Threads :
        /\ th[t].op = "delete" /\ Succeeded(t)
        /\ th[t].removed > 0
        /\ store # <<>>

\* The course and the events the reply's JSON value stands for.
CourseOf(d) ==
    IF d.t = "obj" /\ Get(d, "course").t = "str" /\ ~AllBlank(Get(d, "course").s)
    THEN Strip(Get(d, "course").s)
    ELSE None

EventsOf(d) ==
    IF d.t = "list" THEN d.items
    ELSE IF d.t = "obj" /\ Get(d, "events").t = "list" THEN Get(d, "events").items
    ELSE IF d.t = "obj" /\ Get(d, "events").t = "obj" THEN <<Get(d, "events")>>
    ELSE <<>>

ReplyJson(t) == StripWs(StripFences(th[t].inp.reply.text))[1].v

\* C8: parsing a reply that is a JSON list or object never fails and gives
\* the object's trimmed non-empty course (else none) and the list of events.
C8_ParsingNeverFails ==
    \A t \in Threads :
        (/\ Processing(t)
         /\ th[t].inp.reply # NotReached
         /\ th[t].inp.reply.exc = "none"
         /\ IsJson(StripFences(th[t].inp.reply.text))) =>
            /\ th[t].ai.exc = "none"
            /\ th[t].ai.course = CourseOf(ReplyJson(t))
            /\ th[t].ai.events = EventsOf(ReplyJson(t))

\* The variable is unset or blank in the environment.
Unset(name) == environ[name] = None \/ AllBlank(environ[name])

Unconfigured == Unset("SUPABASE_URL") \/ Unset("SUPABASE_SERVICE_ROLE_KEY")

\* C9: without the endpoint URL or the credential, no client is ever
\* constructed and the store never changes; health and the requests that end
\* before the insert or build no rows answer as they always do; a request
\* that reaches the insert with rows, and every delete_class, ends with 500.
C9_ConfigErrorOnlyAtPersistence ==
    Unconfigured =>
        /\ handles = 0
        /\ _supabase = None
        /\ store = <<>>
        /\ \A t \in Threads :
            /\ th[t].supa = None
            /\ th[t].calls.insert = 0 /\ th[t].calls.delete = 0
            /\ Done(t) =>
                /\ th[t].op = "health" => th[t].resp = Ok("status", <<>>, None)
                /\ th[t].op = "delete" =>
                       th[t].resp.status = 500 /\ th[t].inp.db = "ConfigError"
                /\ (Processing(t) /\ th[t].rows # <<>>) =>
                       th[t].resp.status = 500 /\ th[t].inp.db = "ConfigError"
                /\ (Processing(t) /\ th[t].rows = <<>>) =>
                       /\ th[t].inp.db = "not reached"
                       /\ th[t].resp.status = StatusDue(t)
                       /\ th[t].resp.status = 200 =>
                              th[t].resp = Ok("events", <<>>, CourseDue(t))

\* C9's case: only the credential is missing and a request with rows has
\* ended at the insert.
C9_Witness ==
    /\ ~Unset("SUPABASE_URL")
    /\ Unset("SUPABASE_SERVICE_ROLE_KEY")
    /\ \E t \in Threads :
        /\ Processing(t) /\ Done(t)
        /\ th[t].rows # <<>>
        /\ th[t].resp.status = 500

\* C10: the client is constructed at most once, and every call of
\* get_supabase returns that one client.
C10_ClientConstructedOnce ==
    /\ handles <= 1
    /\ \A t \in Threads : th[t].supa \in {None, Client(1)}

====
